---- MODULE Spec2Model ----
(***************************************************************************)
(* AgriSense AI (src/app.py): a Streamlit script that is re-executed from  *)
(* top to bottom on every user interaction.  The state that survives a     *)
(* re-execution is st.session_state (auth, role, email, results), the      *)
(* widget values (the navigation radio, the crop text input) and the two   *)
(* tables of the persistence store (login_logs, crop_history).             *)
(*                                                                         *)
(* A model output text is a sequence of lexical fragments: "{", "}", ",",  *)
(* a word of prose, a number, and two fragments that stand for member      *)
(* lists of a JSON object.  The "time" column of the two tables is left    *)
(* out: no operation reads it back except to order the admin tables.       *)
(*                                                                         *)
(* Streamlit keeps a widget's value only while runs render the widget: the *)
(* crop text input is empty again after the login page or an admin page    *)
(* was rendered, and the radio returns a member of the nav of that run.    *)
(* The locals of a run (the messages shown, res inside analyze_crop_ai)    *)
(* are those of the last run only.                                         *)
(***************************************************************************)
EXTENDS Integers, Sequences, FiniteSets, TLC

\* ---------------------------------------------------------------- bounds

MaxTextLen == 5
MaxLogs == 2
MaxHistory == 1

\* ------------------------------------------------------------ Python values

None == "None"
PyTrue == "True"
PyFalse == "False"

\* `if x:` / `if not x:` on the values session_state.auth takes
Truthy(v) == v = PyTrue

PyNone == [type |-> "NoneType"]
PyDict(f) == [type |-> "dict", items |-> f]
PyInt(n) == [type |-> "int", n |-> n]

\* `if st.session_state.results:` a dict is true when it is not empty
TruthyValue(v) ==
    CASE v.type = "NoneType" -> FALSE
      [] v.type = "dict" -> DOMAIN v.items # {}
      [] v.type = "int" -> v.n # 0

\* ------------------------------------------------------------ model output

LBRACE == "{"
RBRACE == "}"
COMMA == ","
PROSE == "prose"
NUMBER == "42"
\* the member  "sowing_season":"June"
ONE == "\"sowing_season\":\"June\""
\* the six members the prompt asks for, separated by commas
SIX == "\"sowing_season\":\"Kharif\",...,\"profitability_comment\":\"Good\""

Alphabet == {LBRACE, RBRACE, COMMA, PROSE, NUMBER, ONE, SIX}

SixKeys ==
    {"sowing_season", "harvest_time", "estimated_cost_per_acre",
     "transport_cost_estimate", "best_selling_price_range", "profitability_comment"}

\* the key/value pairs a member fragment holds
Members(tok) ==
    CASE tok = ONE -> [k \in {"sowing_season"} |-> "June"]
      [] tok = SIX -> [k \in SixKeys |-> IF k = "sowing_season" THEN "Kharif" ELSE "Good"]

IsMember(tok) == tok \in {ONE, SIX}

SeqsUpTo(S, n) == UNION {[1..k -> S] : k \in 0..n}

Texts == SeqsUpTo(Alphabet, MaxTextLen)

\* ------------------------------------------------------------ str methods

\* str.find(c): lowest 0-based index of c in s, or -1
RECURSIVE findFrom(_, _, _)
findFrom(s, c, i) ==
    IF i > Len(s) THEN -1
    ELSE IF s[i] = c THEN i - 1
    ELSE findFrom(s, c, i + 1)

find(s, c) == findFrom(s, c, 1)

\* str.rfind(c): highest 0-based index of c in s, or -1
RECURSIVE rfindFrom(_, _, _)
rfindFrom(s, c, i) ==
    IF i < 1 THEN -1
    ELSE IF s[i] = c THEN i - 1
    ELSE rfindFrom(s, c, i - 1)

rfind(s, c) == rfindFrom(s, c, Len(s))

\* an index of a slice: negative counts from the end, then clamped to 0..len
SliceIndex(i, n) ==
    IF i < 0 THEN (IF i + n < 0 THEN 0 ELSE i + n)
    ELSE IF i > n THEN n ELSE i

\* s[start:end]
PySlice(s, start, end) ==
    LET lo == SliceIndex(start, Len(s))
        hi == SliceIndex(end, Len(s))
    IN  IF lo >= hi THEN <<>> ELSE SubSeq(s, lo + 1, hi)

\* ------------------------------------------------------------ json

\* dict built from members left to right: a repeated key keeps the last value
RECURSIVE BuildDict(_, _)
BuildDict(ms, acc) ==
    IF ms = <<>> THEN acc
    ELSE LET m == Members(Head(ms))
         IN  BuildDict(Tail(ms),
                       [k \in DOMAIN acc \cup DOMAIN m |->
                           IF k \in DOMAIN m THEN m[k] ELSE acc[k]])

\* member (COMMA member)*
IsMemberList(s) ==
    /\ Len(s) % 2 = 1
    /\ \A i \in 1..Len(s) : IF i % 2 = 1 THEN IsMember(s[i]) ELSE s[i] = COMMA

MembersOf(s) == [j \in 1..((Len(s) + 1) \div 2) |-> s[2 * j - 1]]

EmptyDict == [k \in {} |-> ""]

JSONDecodeError == [raised |-> TRUE, value |-> PyNone]
Returned(v) == [raised |-> FALSE, value |-> v]

\* json.loads(s): a number, or an object  { }  /  { member , member ... }
json_loads(s) ==
    IF s = <<NUMBER>> THEN Returned(PyInt(42))
    ELSE IF Len(s) >= 2 /\ s[1] = LBRACE /\ s[Len(s)] = RBRACE
    THEN LET inner == SubSeq(s, 2, Len(s) - 1)
         IN  IF inner = <<>> THEN Returned(PyDict(EmptyDict))
             ELSE IF IsMemberList(inner)
             THEN Returned(PyDict(BuildDict(MembersOf(inner), EmptyDict)))
             ELSE JSONDecodeError
    ELSE JSONDecodeError

\* json.dumps(result) of a value json.loads returned: the value as text
json_dumps(v) == [json |-> v]

\* ------------------------------------------------------------ AI engine

\* what hf_client.text_generation does: it raises, or returns the text res
Raises == [raised |-> TRUE, text |-> <<>>]
Generates(t) == [raised |-> FALSE, text |-> t]

\* mutant: json.loads(res), the text is parsed without the extraction
CandidateWhole(res) == res

\* mutant: end = res.find("}") + 1, the first closing brace ends the candidate
CandidateFirstClose(res) == PySlice(res, find(res, LBRACE), find(res, RBRACE) + 1)

\* res[start:end] with start = res.find("{") and end = res.rfind("}") + 1
Candidate(res) == PySlice(res, find(res, LBRACE), rfind(res, RBRACE) + 1)

\* analyze_crop_ai(crop), given what the endpoint does with the prompt
analyze_crop_ai(gen) ==
    IF gen.raised THEN [raised |-> TRUE, value |-> PyNone]
    ELSE json_loads(Candidate(gen.text))

\* ------------------------------------------------------------ inputs

Emails == {"asha@farm.in", "ravi@farm.in"}
Roles == {"User", "Admin"}
Passkeys == {"", "secret", "wrong"}
Crops == {"Tomato", "Onion"}
\* sign_in_with_password: a response with a session, one without, an exception
SignIn == {"session", "nosession", "raise"}

\* the model outputs the application is run against
Responses ==
    { <<PROSE, LBRACE, SIX, RBRACE, PROSE>>,
      <<LBRACE, ONE, RBRACE>>,
      <<PROSE>> }

\* ------------------------------------------------------------ state

NoPage == "none"
CropAnalysis == "Crop Analysis"
UserLogs == "User Logs"
ResearchHistory == "Research History"

MsgNone == ""
MsgInvalidKey == "Invalid Admin Passkey."
MsgLoginFailed == "Login failed."
MsgAuthError == "Authentication error."
MsgCreated == "Account created."
MsgSignUpError == "str(e)"
MsgAIFailed == "AI failed. Check token or model."
MsgNoLogs == "No logs."
MsgNoHistory == "No history."

NoLogin == [role_choice |-> None, admin_key |-> None, signin |-> None]
NoCall == [status |-> "none", res |-> <<>>, candidate |-> <<>>]

VARIABLES
    ADMIN_PASSKEY,  \* os.getenv("ADMIN_PASSKEY"): None when unset
    auth,           \* st.session_state.auth
    role,           \* st.session_state.role
    email,          \* st.session_state.email
    results,        \* st.session_state.results
    results_crop,   \* the crop whose analysis was assigned to results
    login_inputs,   \* role_choice, admin_key and sign-in response of the login that set auth
    login_logs,     \* table login_logs
    crop_history,   \* table crop_history
    page,           \* the navigation radio of the page last rendered
    crop,           \* the crop text input of the page last rendered
    msg,            \* the st.error / st.success / st.warning of the last run
    call            \* res and res[start:end] of the run's analyze_crop_ai call

vars ==
    <<ADMIN_PASSKEY, auth, role, email, results, results_crop, login_inputs,
      login_logs, crop_history, page, crop, msg, call>>

Init ==
    /\ ADMIN_PASSKEY \in {None, "secret"}
    /\ auth = None
    /\ role = None
    /\ email = None
    /\ results = PyNone
    /\ results_crop = None
    /\ login_inputs = NoLogin
    /\ login_logs = <<>>
    /\ crop_history = <<>>
    /\ page = NoPage
    /\ crop = ""
    /\ msg = MsgNone
    /\ call = NoCall

\* mutant: the admin pages are added whatever the role
navAll(r) == {CropAnalysis, UserLogs, ResearchHistory}

\* nav: the pages the sidebar radio offers
nav(r) == IF r = "Admin" THEN {CropAnalysis, UserLogs, ResearchHistory} ELSE {CropAnalysis}

\* the download button of the Crop Analysis page and its file name
PdfOffered == Truthy(auth) /\ page = CropAnalysis /\ TruthyValue(results)
file_name == <<crop, "_analysis.pdf">>

\* ------------------------------------------------------------ handlers

\* mutant: `not admin_key`, only the presence of a passkey is checked
passkey_rejected_if_empty(role_choice, admin_key) ==
    role_choice = "Admin" /\ admin_key = ""

\* role_choice == "Admin" and admin_key != ADMIN_PASSKEY
passkey_rejected(role_choice, admin_key) ==
    role_choice = "Admin" /\ admin_key # ADMIN_PASSKEY

\* login_form submitted
Login(e, role_choice, admin_key, signin, insert_ok) ==
    /\ ~Truthy(auth)
    /\ Len(login_logs) < MaxLogs
    /\ UNCHANGED <<ADMIN_PASSKEY, results, results_crop, crop_history>>
    /\ call' = NoCall
    /\ IF signin = "raise"
       THEN /\ msg' = MsgAuthError
            /\ UNCHANGED <<auth, role, email, login_inputs, login_logs, page, crop>>
       ELSE IF signin = "nosession"
       THEN /\ msg' = MsgLoginFailed
            /\ UNCHANGED <<auth, role, email, login_inputs, login_logs, page, crop>>
       ELSE IF passkey_rejected(role_choice, admin_key)
       THEN /\ msg' = MsgInvalidKey
            /\ UNCHANGED <<auth, role, email, login_inputs, login_logs, page, crop>>
       ELSE /\ auth' = PyTrue
            /\ role' = role_choice
            /\ email' = e
            /\ login_inputs' =
                 [role_choice |-> role_choice, admin_key |-> admin_key, signin |-> signin]
            /\ IF insert_ok
               THEN \* st.rerun(): the main page is rendered
                    /\ login_logs' = Append(login_logs, [email |-> e, role |-> role_choice])
                    /\ page' = CropAnalysis
                    /\ crop' = ""
                    /\ msg' = MsgNone
               ELSE \* the insert raised: caught by the handler's except
                    /\ msg' = MsgAuthError
                    /\ UNCHANGED <<login_logs, page, crop>>

\* mutant: a created account is logged in at once
RegisterSignsIn(e, signup_ok) ==
    /\ ~Truthy(auth)
    /\ msg' = IF signup_ok THEN MsgCreated ELSE MsgSignUpError
    /\ auth' = IF signup_ok THEN PyTrue ELSE auth
    /\ email' = IF signup_ok THEN e ELSE email
    /\ call' = NoCall
    /\ UNCHANGED <<ADMIN_PASSKEY, role, results, results_crop,
                   login_inputs, login_logs, crop_history, page, crop>>

\* reg_form submitted
Register(e, signup_ok) ==
    /\ ~Truthy(auth)
    /\ msg' = IF signup_ok THEN MsgCreated ELSE MsgSignUpError
    /\ call' = NoCall
    /\ UNCHANGED <<ADMIN_PASSKEY, auth, role, email, results, results_crop,
                   login_inputs, login_logs, crop_history, page, crop>>

\* the script runs again with no widget event of its own
Rerun ==
    /\ msg' = MsgNone
    /\ call' = NoCall
    /\ IF Truthy(auth) /\ page = NoPage
       THEN page' = CropAnalysis /\ crop' = ""
       ELSE UNCHANGED <<page, crop>>
    /\ UNCHANGED <<ADMIN_PASSKEY, auth, role, email, results, results_crop,
                   login_inputs, login_logs, crop_history>>

\* sidebar Logout button
Logout ==
    /\ Truthy(auth)
    /\ page # NoPage
    /\ auth' = PyFalse
    /\ page' = NoPage
    /\ crop' = ""
    /\ msg' = MsgNone
    /\ call' = NoCall
    /\ UNCHANGED <<ADMIN_PASSKEY, role, email, results, results_crop,
                   login_inputs, login_logs, crop_history>>

\* sidebar radio: another page of nav is chosen and rendered
Navigate(p) ==
    /\ Truthy(auth)
    /\ page # NoPage
    /\ p \in nav(role)
    /\ p # page
    /\ page' = p
    /\ crop' = ""
    /\ msg' = IF p = UserLogs /\ login_logs = <<>> THEN MsgNoLogs
              ELSE IF p = ResearchHistory /\ crop_history = <<>> THEN MsgNoHistory
              ELSE MsgNone
    /\ call' = NoCall
    /\ UNCHANGED <<ADMIN_PASSKEY, auth, role, email, results, results_crop,
                   login_inputs, login_logs, crop_history>>

\* the crop text input is edited
EditCrop(c) ==
    /\ Truthy(auth)
    /\ page = CropAnalysis
    /\ c # crop
    /\ crop' = c
    /\ msg' = MsgNone
    /\ call' = NoCall
    /\ UNCHANGED <<ADMIN_PASSKEY, auth, role, email, results, results_crop,
                   login_inputs, login_logs, crop_history, page>>

\* "Analyze Crop" button with a crop name typed
AnalyzeCrop(gen, insert_ok) ==
    /\ Truthy(auth)
    /\ page = CropAnalysis
    /\ crop # ""
    /\ Len(crop_history) < MaxHistory
    /\ LET result == analyze_crop_ai(gen)
       IN  /\ call' = IF gen.raised
                      THEN [status |-> "remote_error", res |-> <<>>, candidate |-> <<>>]
                      ELSE [status |-> "returned", res |-> gen.text,
                            candidate |-> Candidate(gen.text)]
           /\ IF result.raised
              THEN /\ msg' = MsgAIFailed
                   /\ UNCHANGED <<results, results_crop, crop_history>>
              ELSE /\ results' = result.value
                   /\ results_crop' = crop
                   /\ IF insert_ok
                      THEN /\ crop_history' =
                                Append(crop_history,
                                       [email |-> email, role |-> role, crop |-> crop,
                                        result |-> json_dumps(result.value)])
                           /\ msg' = MsgNone
                      ELSE /\ msg' = MsgAIFailed
                           /\ UNCHANGED crop_history
    /\ UNCHANGED <<ADMIN_PASSKEY, auth, role, email, login_inputs, login_logs, page, crop>>

\* ------------------------------------------------------------ the application

DoLogin ==
    \E e \in Emails, rc \in Roles, s \in SignIn, ok \in BOOLEAN :
        \E k \in (IF rc = "Admin" THEN Passkeys ELSE {None}) :
            Login(e, rc, k, s, ok)

DoRegister == \E e \in Emails, ok \in BOOLEAN : Register(e, ok)

DoNavigate == \E p \in {CropAnalysis, UserLogs, ResearchHistory} : Navigate(p)

DoEditCrop == \E c \in Crops \cup {""} : EditCrop(c)

DoAnalyzeCrop ==
    \E gen \in {Raises} \cup {Generates(t) : t \in Responses}, ok \in BOOLEAN :
        AnalyzeCrop(gen, ok)

Next ==
    \/ DoLogin
    \/ DoRegister
    \/ Rerun
    \/ Logout
    \/ DoNavigate
    \/ DoEditCrop
    \/ DoAnalyzeCrop

Spec == Init /\ [][Next]_vars

\* ------------------------------------------------------------ the engine alone

\* The Analyze Crop handler run once on every text of Texts, from sessions of
\* the application in which asha is logged in as User with a crop name typed:
\* one with no result yet, one that holds the result of an earlier analysis
\* of Tomato whose crop_history insert failed.
FullResult == PyDict(Members(SIX))

InitEngine ==
    /\ ADMIN_PASSKEY = "secret"
    /\ auth = PyTrue
    /\ role = "User"
    /\ email = "asha@farm.in"
    /\ login_inputs = [role_choice |-> "User", admin_key |-> None, signin |-> "session"]
    /\ login_logs = <<[email |-> "asha@farm.in", role |-> "User"]>>
    /\ crop_history = <<>>
    /\ page = CropAnalysis
    /\ crop \in Crops
    /\ msg = MsgNone
    /\ call = NoCall
    /\ \/ results = PyNone /\ results_crop = None
       \/ results = FullResult /\ results_crop = "Tomato"

AnalyzeOnce ==
    /\ call = NoCall
    /\ \E gen \in {Raises} \cup {Generates(t) : t \in Texts}, ok \in BOOLEAN :
           AnalyzeCrop(gen, ok)

NextEngine == AnalyzeOnce

SpecEngine == InitEngine /\ [][NextEngine]_vars

\* ------------------------------------------------------------ claims

Session == <<auth, role, email, results>>

\* C1: a login attempt with role Admin and a passkey other than ADMIN_PASSKEY
\* leaves the session unauthenticated and unchanged and appends nothing to
\* login_logs, whatever the identity service answers and however often it
\* is repeated: no step that changes the session or login_logs, or ends
\* authenticated, is such an attempt.
C1_WrongPasskeyChangesNothing ==
    [][ \/ (UNCHANGED <<Session, login_logs>> /\ ~Truthy(auth'))
        \/ ~ \E e \in Emails, k \in Passkeys, s \in SignIn, ok \in BOOLEAN :
                 k # ADMIN_PASSKEY /\ Login(e, "Admin", k, s, ok) ]_vars

\* an Admin attempt the identity service accepted was refused for its
\* passkey, after an earlier session had been logged
C1_Witness ==
    msg = MsgInvalidKey /\ ~Truthy(auth) /\ Len(login_logs) = 1

\* C2: a step leaves the session authenticated exactly when it appends one
\* record to login_logs, and no step appends more than one.
C2_OneLogPerLogin ==
    [][ /\ (~Truthy(auth) /\ Truthy(auth')) <=> (Len(login_logs') = Len(login_logs) + 1)
        /\ login_logs' = login_logs \/ Len(login_logs') = Len(login_logs) + 1 ]_vars

\* the analysis of the last run parsed: its result was assigned to results
Stored(c) == c.status = "returned" /\ ~json_loads(c.candidate).raised

\* C3: an Analyze step that stores a result appends exactly one record to
\* crop_history, holding the crop and that result; one that fails appends none.
C3_OneRecordPerAnalysis ==
    [][ call'.status # "none" =>
          IF Stored(call')
          THEN crop_history' =
                   Append(crop_history,
                          [email |-> email, role |-> role, crop |-> crop,
                           result |-> json_dumps(results')])
          ELSE crop_history' = crop_history ]_vars

\* C4: a logout leaves role, email and results null, and the login that
\* follows starts with results null.
C4_LogoutClearsSession ==
    [][ /\ (Truthy(auth) /\ ~Truthy(auth')) =>
               (role' = None /\ email' = None /\ results' = PyNone)
        /\ (~Truthy(auth) /\ Truthy(auth')) => results' = PyNone ]_vars

NoOpenOrNoClose(t) ==
    \/ \A i \in 1..Len(t) : t[i] # LBRACE
    \/ \A i \in 1..Len(t) : t[i] # RBRACE

\* C5: an analysis whose model output holds no "{" or no "}" shows the error,
\* leaves results as it was and appends nothing to crop_history.
C5_NoBraceFails ==
    [][ (call'.status = "returned" /\ NoOpenOrNoClose(call'.res)) =>
            /\ msg' = MsgAIFailed
            /\ UNCHANGED <<results, results_crop, crop_history>> ]_vars

\* the output held a "}" and no "{", and the earlier result is still there
C5_Witness ==
    /\ call.status = "returned"
    /\ \E i \in 1..Len(call.res) : call.res[i] = RBRACE
    /\ \A i \in 1..Len(call.res) : call.res[i] # LBRACE
    /\ msg = MsgAIFailed
    /\ results = FullResult
    /\ crop_history = <<>>

OpenBeforeClose(t) ==
    \E i, j \in 1..Len(t) : i < j /\ t[i] = LBRACE /\ t[j] = RBRACE

FirstOpen(t) == CHOOSE i \in 1..Len(t) : t[i] = LBRACE /\ \A j \in 1..(i - 1) : t[j] # LBRACE
LastClose(t) == CHOOSE i \in 1..Len(t) : t[i] = RBRACE /\ \A j \in (i + 1)..Len(t) : t[j] # RBRACE

\* C6: when a "{" occurs before a "}" in the model output, the text given to
\* the JSON parser is the output from its first "{" to its last "}", both
\* included, and the object parsed from it is the result stored.
C6_FirstOpenToLastClose ==
    (call.status = "returned" /\ OpenBeforeClose(call.res)) =>
        LET between == SubSeq(call.res, FirstOpen(call.res), LastClose(call.res))
        IN  /\ call.candidate = between
            /\ ~json_loads(between).raised => results = json_loads(between).value

\* prose on both sides of the six-member object, which is the result
C6_Witness ==
    /\ call.status = "returned"
    /\ call.res = <<PROSE, LBRACE, SIX, RBRACE, PROSE>>
    /\ call.candidate = <<LBRACE, SIX, RBRACE>>
    /\ results = FullResult

\* C7: results is null or a mapping that holds all six keys.
C7_SixKeysOrNull ==
    \/ results = PyNone
    \/ results.type = "dict" /\ SixKeys \subseteq DOMAIN results.items

AdminRendered == page \in {UserLogs, ResearchHistory}

\* C8: an admin page is rendered only in a session authenticated with role
\* Admin; such a session was authenticated by a login the identity service
\* accepted and whose passkey equalled ADMIN_PASSKEY; a session authenticated
\* as User renders Crop Analysis only.
C8_AdminViewsGated ==
    /\ AdminRendered => (Truthy(auth) /\ role = "Admin")
    /\ (Truthy(auth) /\ role = "Admin") =>
           /\ login_inputs.role_choice = "Admin"
           /\ login_inputs.signin = "session"
           /\ login_inputs.admin_key = ADMIN_PASSKEY
    /\ (Truthy(auth) /\ role = "User") => page \in {NoPage, CropAnalysis}

\* Research History rendered for an admin, in the second session logged
C8_Witness ==
    /\ page = ResearchHistory
    /\ Truthy(auth)
    /\ role = "Admin"
    /\ Len(login_logs) = 2

\* C9: a register step, accepted or rejected by the identity service, leaves
\* the session as it was, unauthenticated, and appends no record.
C9_RegisterFrame ==
    [][ (\E e \in Emails, ok \in BOOLEAN : Register(e, ok)) =>
            /\ UNCHANGED <<Session, login_logs, crop_history>>
            /\ ~Truthy(auth') ]_vars

\* an account was created and nobody is logged in
C9_Witness ==
    msg = MsgCreated /\ ~Truthy(auth) /\ login_logs = <<>> /\ crop_history = <<>>

\* C10: when the download is offered, the crop of its file name is the crop
\* whose analysis produced the results it renders.
C10_FileNameOfResult ==
    PdfOffered => file_name = <<results_crop, "_analysis.pdf">>

====
